---- MODULE Spec2Model ----
(***************************************************************************)
(* Model of verifier/dbverifier.py (stacktach): the verification engine    *)
(* (_verify and its helpers) over a store of launch, delete and reconcile  *)
(* records, and the worker-pool orchestrator (Verifier.verify_for_range,   *)
(* clean_results, reconcile_failed) that dispatches it.                    *)
(*                                                                         *)
(* Timestamps are Decimal seconds in the source.  Here a timestamp is an   *)
(* integer number of ticks, TicksPerSec ticks to the second, so that       *)
(* int(d) is d \div TicksPerSec and datetime.microsecond is                *)
(* d % TicksPerSec.  None is the value -1.  An optional related object     *)
(* (exist.usage, exist.delete, the launch= / delete= arguments) is a set   *)
(* holding no or one record.                                               *)
(***************************************************************************)
EXTENDS Integers, Sequences, FiniteSets, TLC

VARIABLES exists,      \* InstanceExists rows of the store, by id
          launches,    \* InstanceUsage rows of the store
          deletes,     \* InstanceDeletes rows of the store
          reconciles,  \* InstanceReconcile rows of the store
          tasks,       \* the tasks handed to the pool (apply_async), in order
          runs,        \* the Verifier objects (orchestrator runs), by number
          calls,       \* what the calls of _verify did, in order of completion
          published    \* the messages handed to producer.publish, in order

vars == <<exists, launches, deletes, reconciles, tasks, runs, calls, published>>

----------------------------------------------------------------------------
(* Bounds *)

TicksPerSec == 2     \* sub-second resolution of a timestamp
MaxRecs == 3         \* launch + delete + reconcile records in the store
MaxFaultAt == 10     \* the store operation of one _verify call that may fault

----------------------------------------------------------------------------
(* Values *)

None == -1

PENDING == "pending"
VERIFYING == "verifying"
VERIFIED == "verified"
RECONCILED == "reconciled"
FAILED == "failed"

NoReason == <<>>

\* Python truthiness of a Decimal-or-None field: None and 0 are false.
Truthy(d) == d # None /\ d # 0

\* int(d) of a Decimal timestamp.
int(d) == d \div TicksPerSec

\* launched.microsecond of the datetime of a timestamp.
microsecond(launched) == launched % TicksPerSec

----------------------------------------------------------------------------
(* The exceptions of package verifier.  e.cls is the class name, a, b, c   *)
(* its constructor arguments.                                              *)

Exc(cls, a, b, c) == [cls |-> cls, a |-> a, b |-> b, c |-> c]

VerificationException(reason) == Exc("VerificationException", reason, None, None)

NotFound(object_type, instance, launched_at) ==
    Exc("NotFound", object_type, instance, launched_at)

AmbiguousResults(object_type, instance, launched_at) ==
    Exc("AmbiguousResults", object_type, instance, launched_at)

FieldMismatch(field_name, expected, actual) ==
    Exc("FieldMismatch", field_name, expected, actual)

\* The fault a store operation raises when the store fails.
DatabaseError == Exc("DatabaseError", "", None, None)

IsNotFound(e) == e.cls = "NotFound"

IsVerificationException(e) ==
    e.cls \in {"VerificationException", "NotFound", "AmbiguousResults",
               "FieldMismatch"}

\* str(e): the message text, which names the condition and its arguments.
str(e) == <<e.cls, e.a, e.b, e.c>>

\* e.__class__.__name__
ClassName(e) == <<e.cls>>

----------------------------------------------------------------------------
(* Finder: the queries.  The window is the second of `launched`.           *)

WindowStart(launched) == launched - microsecond(launched)

WindowEnd(launched) == WindowStart(launched) + (TicksPerSec - 1)

InWindow(r, instance, launched) ==
    /\ r.instance = instance
    /\ r.launched_at # None
    /\ r.launched_at >= WindowStart(launched)
    /\ r.launched_at <= WindowEnd(launched)

_find_launch(instance, launched) ==
    {l \in launches : InWindow(l, instance, launched)}

_find_reconcile(instance, launched) ==
    {r \in reconciles : InWindow(r, instance, launched)}

\* Mutant of _find_delete: deleted_at__lt instead of deleted_at__lte.
_find_delete_StrictlyBefore(instance, launched, deleted_max) ==
    {d \in deletes :
        /\ InWindow(d, instance, launched)
        /\ (deleted_max # None =>
                d.deleted_at # None /\ d.deleted_at < deleted_max)}

_find_delete(instance, launched, deleted_max) ==
    {d \in deletes :
        /\ InWindow(d, instance, launched)
        /\ (deleted_max # None =>
                d.deleted_at # None /\ d.deleted_at <= deleted_max)}

----------------------------------------------------------------------------
(* Matcher *)

_verify_date_field(d1, d2, same_second) ==
    IF Truthy(d1) /\ Truthy(d2)
    THEN (d1 = d2) \/ (same_second /\ int(d1) = int(d2))
    ELSE FALSE

\* The exception raised, as a sequence: <<>> when none is.
_verify_field_mismatch(exist, launch) ==
    IF ~_verify_date_field(launch.launched_at, exist.launched_at, TRUE)
    THEN <<FieldMismatch("launched_at", exist.launched_at, launch.launched_at)>>
    ELSE IF launch.instance_type_id # exist.instance_type_id
    THEN <<FieldMismatch("instance_type_id", exist.instance_type_id,
                         launch.instance_type_id)>>
    ELSE IF launch.tenant # exist.tenant
    THEN <<FieldMismatch("tenant", exist.tenant, launch.tenant)>>
    ELSE IF launch.rax_options # exist.rax_options
    THEN <<FieldMismatch("rax_options", exist.rax_options, launch.rax_options)>>
    ELSE IF launch.os_architecture # exist.os_architecture
    THEN <<FieldMismatch("os_architecture", exist.os_architecture,
                         launch.os_architecture)>>
    ELSE IF launch.os_version # exist.os_version
    THEN <<FieldMismatch("os_version", exist.os_version, launch.os_version)>>
    ELSE IF launch.os_distro # exist.os_distro
    THEN <<FieldMismatch("os_distro", exist.os_distro, launch.os_distro)>>
    ELSE <<>>

----------------------------------------------------------------------------
(* Store operations of one _verify call.  tr is the trace of the store     *)
(* operations attempted so far; the operation number f faults (f = 0:      *)
(* none does).  A step yields [exc, tr]: the exception it raised (<<>> for *)
(* none) and the trace after it.                                           *)

Faults(tr, f) == Len(tr) + 1 = f

Raise(e, tr) == [exc |-> <<e>>, tr |-> tr]

Pass(tr) == [exc |-> <<>>, tr |-> tr]

The(s) == CHOOSE x \in s : TRUE

\* F(x), x evaluated once.
Let(x, F(_)) == The({F(v) : v \in {x}})

Compare(exist, launch, tr) ==
    [exc |-> _verify_field_mismatch(exist, launch), tr |-> tr]

\* Lines 178-193: the search of _verify_for_launch.
\* Mutant: no count > 1 test, the search uses one of the launches it found.
SearchLaunch_PicksOne(exist, launch_type, tr, f) ==
    LET tr1 == Append(tr, "InstanceUsage.count")
        tr2 == Append(tr1, "InstanceUsage.count")
        tr3 == Append(tr2, "InstanceUsage.get")
    IN  IF Faults(tr, f) THEN Raise(DatabaseError, tr1)
        ELSE IF Cardinality({l \in launches : l.instance = exist.instance}) > 0
        THEN IF Faults(tr1, f) THEN Raise(DatabaseError, tr2)
             ELSE Let(_find_launch(exist.instance, exist.launched_at),
                      LAMBDA found :
                  IF Cardinality(found) = 0
                  THEN Raise(NotFound(launch_type, exist.instance,
                                      exist.launched_at), tr2)
                  ELSE IF Faults(tr2, f) THEN Raise(DatabaseError, tr3)
                  ELSE Compare(exist, The(found), tr3))
        ELSE Raise(NotFound(launch_type, exist.instance, None), tr1)

SearchLaunch(exist, launch_type, tr, f) ==
    LET tr1 == Append(tr, "InstanceUsage.count")
        tr2 == Append(tr1, "InstanceUsage.count")
        tr3 == Append(tr2, "InstanceUsage.get")
    IN  IF Faults(tr, f) THEN Raise(DatabaseError, tr1)
        ELSE IF Cardinality({l \in launches : l.instance = exist.instance}) > 0
        THEN IF Faults(tr1, f) THEN Raise(DatabaseError, tr2)
             ELSE Let(_find_launch(exist.instance, exist.launched_at),
                      LAMBDA found :
                  IF Cardinality(found) > 1
                  THEN Raise(AmbiguousResults(launch_type, exist.instance,
                                              exist.launched_at), tr2)
                  ELSE IF Cardinality(found) = 0
                  THEN Raise(NotFound(launch_type, exist.instance,
                                      exist.launched_at), tr2)
                  ELSE IF Faults(tr2, f) THEN Raise(DatabaseError, tr3)
                  ELSE Compare(exist, The(found), tr3))
        ELSE Raise(NotFound(launch_type, exist.instance, None), tr1)

_verify_for_launch(exist, launch, launch_type, tr, f) ==
    IF launch = {} /\ exist.usage # {}
    THEN Compare(exist, The(exist.usage), tr)
    ELSE IF launch = {}
    THEN SearchLaunch(exist, launch_type, tr, f)
    ELSE Compare(exist, The(launch), tr)

\* 'Found %ss for non-delete exist' % delete_type
FoundReason(delete_type) ==
    IF delete_type = "InstanceDelete"
    THEN "Found InstanceDeletes for non-delete exist"
    ELSE "Found InstanceReconciles for non-delete exist"

\* Lines 230-239: the comparison with the delete, if there is one.
CompareDelete(exist, delete, tr) ==
    IF delete = {} THEN Pass(tr)
    ELSE Let(The(delete), LAMBDA d :
         IF ~_verify_date_field(d.launched_at, exist.launched_at, TRUE)
         THEN Raise(FieldMismatch("launched_at", exist.launched_at,
                                  d.launched_at), tr)
         ELSE IF ~_verify_date_field(d.deleted_at, exist.deleted_at, TRUE)
         THEN Raise(FieldMismatch("deleted_at", exist.deleted_at,
                                  d.deleted_at), tr)
         ELSE Pass(tr))

\* Lines 204-228: the search of _verify_for_delete.
SearchDelete(exist, delete_type, tr, f) ==
    LET tr1 == Append(tr, "InstanceDeletes.count")
        tr2 == Append(tr1, "InstanceDeletes.get")
    IN  IF Faults(tr, f) THEN Raise(DatabaseError, tr1)
        ELSE IF Truthy(exist.deleted_at)
        THEN Let(_find_delete(exist.instance, exist.launched_at, None),
                 LAMBDA found :
             IF Cardinality(found) = 1
             THEN IF Faults(tr1, f) THEN Raise(DatabaseError, tr2)
                  ELSE CompareDelete(exist, found, tr2)
             ELSE Raise(NotFound(delete_type, exist.instance,
                                 exist.launched_at), tr1))
        ELSE IF Cardinality(_find_delete(exist.instance, exist.launched_at,
                                         exist.audit_period_ending)) > 0
        THEN Raise(VerificationException(FoundReason(delete_type)), tr1)
        ELSE CompareDelete(exist, {}, tr1)

_verify_for_delete(exist, delete, delete_type, tr, f) ==
    IF delete = {} /\ exist.delete # {}
    THEN CompareDelete(exist, exist.delete, tr)
    ELSE IF delete = {}
    THEN SearchDelete(exist, delete_type, tr, f)
    ELSE CompareDelete(exist, delete, tr)

\* Lines 261-264: the two comparisons against the reconcile record.
CompareReconciled(exist, reconcile, tr, f) ==
    Let(_verify_for_launch(exist, reconcile, "InstanceReconcile", tr, f),
        LAMBDA r1 :
        IF r1.exc # <<>> THEN r1
        ELSE _verify_for_delete(exist, reconcile, "InstanceReconcile",
                                r1.tr, f))

\* Lines 246-264: the search of _verify_with_reconciled_data and the two
\* comparisons against the record it finds.
SearchReconciled(exist, tr, f) ==
    LET tr1 == Append(tr, "InstanceReconcile.count")
        tr2 == Append(tr1, "InstanceReconcile.count")
        tr3 == Append(tr2, "InstanceReconcile.get")
    IN  IF Faults(tr, f) THEN Raise(DatabaseError, tr1)
        ELSE IF Cardinality({r \in reconciles : r.instance = exist.instance}) > 0
        THEN IF Faults(tr1, f) THEN Raise(DatabaseError, tr2)
             ELSE Let(_find_reconcile(exist.instance, exist.launched_at),
                      LAMBDA recs :
                  IF Cardinality(recs) > 1
                  THEN Raise(AmbiguousResults("InstanceReconcile",
                                 exist.instance, exist.launched_at), tr2)
                  ELSE IF Cardinality(recs) = 0
                  THEN Raise(NotFound("InstanceReconcile", exist.instance,
                                      exist.launched_at), tr2)
                  ELSE IF Faults(tr2, f) THEN Raise(DatabaseError, tr3)
                  ELSE CompareReconciled(exist, recs, tr3, f))
        ELSE Raise(NotFound("InstanceReconcile", exist.instance, None), tr1)

\* Mutant of _verify_with_reconciled_data: no test of exist.launched_at.
_verify_with_reconciled_data_NoTest(exist, tr, f) ==
    SearchReconciled(exist, tr, f)

_verify_with_reconciled_data(exist, tr, f) ==
    IF ~Truthy(exist.launched_at)
    THEN Raise(VerificationException("Exists without a launched_at"), tr)
    ELSE SearchReconciled(exist, tr, f)

----------------------------------------------------------------------------
(* Marking.  m = [exist, row, tr]: the snapshot object in memory, its row  *)
(* in the store, and the trace.  A step yields [m, exc].                   *)

\* exist.save() of object exist: writes it to its row, or faults and
\* writes nothing.
save(m, exist, f) ==
    IF Faults(m.tr, f)
    THEN [m |-> [exist |-> exist, row |-> m.row,
                 tr |-> Append(m.tr, "InstanceExists.save")],
          exc |-> <<DatabaseError>>]
    ELSE [m |-> [exist |-> exist, row |-> exist,
                 tr |-> Append(m.tr, "InstanceExists.save")],
          exc |-> <<>>]

\* Mutant of _mark_exist_verified: the reason is stored whether or not the
\* snapshot is reconciled.
_mark_exist_verified_AlwaysReason(m, reconciled, reason, f) ==
    save(m, [m.exist EXCEPT !.status = IF reconciled THEN RECONCILED
                                        ELSE VERIFIED,
                            !.fail_reason = IF reason # NoReason
                                            THEN reason ELSE @], f)

_mark_exist_verified(m, reconciled, reason, f) ==
    IF ~reconciled
    THEN save(m, [m.exist EXCEPT !.status = VERIFIED], f)
    ELSE save(m, [m.exist EXCEPT !.status = RECONCILED,
                                 !.fail_reason = IF reason # NoReason
                                                 THEN reason ELSE @], f)

_mark_exist_failed(m, reason, f) ==
    save(m, [m.exist EXCEPT !.status = FAILED,
                            !.fail_reason = IF reason # NoReason
                                            THEN reason ELSE @], f)

----------------------------------------------------------------------------
(* Verification engine.  The result of a call:                             *)
(*   verified  the flag (the value returned when the call returns)         *)
(*   m         the object, its row and the trace after the call            *)
(*   exc       the exception the call propagates, <<>> when it returns     *)
(*   orig_e    the exception that ended the fast path, <<>> when none did  *)
(*   rec_e     the exception that ended the fallback, <<>> when none did   *)
(*   fallback  whether _attempt_reconciled_verify ran                      *)

\* The end of a try block whose checks yielded r (lines 272-273, 296-297):
\* verified = True and _mark_exist_verified(exist), unless a check raised.
\* Yields the exception that leaves the block, the flag and the state.
MarkUnlessRaised(m, r, f) ==
    IF r.exc # <<>>
    THEN [exc |-> r.exc, verified |-> FALSE, m |-> [m EXCEPT !.tr = r.tr]]
    ELSE Let(_mark_exist_verified([m EXCEPT !.tr = r.tr], FALSE, NoReason, f),
             LAMBDA mk : [exc |-> mk.exc, verified |-> TRUE, m |-> mk.m])

\* Mutant of ReconciledFailReason: NotFound is not told apart, every
\* verification condition of the fallback is stored with its own message.
ReconciledFailReason_AlwaysSecond(rec_e, orig_e) ==
    IF IsVerificationException(rec_e) THEN str(rec_e)
    ELSE ClassName(rec_e)

\* The except clauses of _attempt_reconciled_verify (lines 274-283): the
\* reason stored for rec_e raised in its try block.
ReconciledFailReason(rec_e, orig_e) ==
    IF IsNotFound(rec_e) THEN str(orig_e)
    ELSE IF IsVerificationException(rec_e) THEN str(rec_e)
    ELSE ClassName(rec_e)

_attempt_reconciled_verify(m, orig_e, f) ==
    Let(MarkUnlessRaised(m, _verify_with_reconciled_data(m.exist, m.tr, f), f),
        LAMBDA try :
        IF try.exc = <<>>
        THEN [verified |-> try.verified, m |-> try.m, exc |-> <<>>,
              rec_e |-> <<>>]
        ELSE Let(_mark_exist_failed(try.m,
                     ReconciledFailReason(try.exc[1], orig_e), f),
                 LAMBDA mf :
                 [verified |-> try.verified, m |-> mf.m, exc |-> mf.exc,
                  rec_e |-> try.exc]))

\* Lines 290-294: the checks of the fast path.
FastPath(exist, tr, f) ==
    IF ~Truthy(exist.launched_at)
    THEN Raise(VerificationException("Exists without a launched_at"), tr)
    ELSE Let(_verify_for_launch(exist, {}, "InstanceUsage", tr, f),
             LAMBDA r1 :
             IF r1.exc # <<>> THEN r1
             ELSE _verify_for_delete(exist, {}, "InstanceDelete", r1.tr, f))

_verify(m, f) ==
    Let(MarkUnlessRaised(m, FastPath(m.exist, m.tr, f), f),
        LAMBDA try :
        IF try.exc = <<>>
        THEN [verified |-> TRUE, m |-> try.m, exc |-> <<>>,
              orig_e |-> <<>>, rec_e |-> <<>>, fallback |-> FALSE]
        ELSE IF IsVerificationException(try.exc[1])
        THEN Let(_attempt_reconciled_verify(try.m, try.exc[1], f),
                 LAMBDA a :
                 [verified |-> a.verified, m |-> a.m, exc |-> a.exc,
                  orig_e |-> try.exc, rec_e |-> a.rec_e, fallback |-> TRUE])
        ELSE Let(_mark_exist_failed(try.m, ClassName(try.exc[1]), f),
                 LAMBDA mf :
                 [verified |-> try.verified, m |-> mf.m, exc |-> mf.exc,
                  orig_e |-> try.exc, rec_e |-> <<>>, fallback |-> FALSE]))

----------------------------------------------------------------------------
(* Notifications.  exist.raw.json is the pair [routing key, body] of the   *)
(* message the snapshot was ingested from; of the body the model keeps     *)
(* event_type, message_id, original_message_id (None: the key is not       *)
(* there) and payload, which stands for all its other keys.  config is     *)
(* what run / run_once read of self.config; routing_keys is a set holding  *)
(* no list (None) or one list.                                             *)

MaxUuids == 2     \* values uuid.uuid4() may yield

NoNotifications == [enable_notifications |-> FALSE, routing_keys |-> {}]

\* json.loads(exist.raw.json)
Raw(exist) ==
    [routing_key |-> "monitor.info",
     body |-> [event_type |-> "compute.instance.exists",
               message_id |-> exist.id,
               original_message_id |-> None,
               payload |-> exist.instance]]

\* uuid.uuid4(): an id no message has yet.
Uuids ==
    {Len(exists) + i : i \in 1..MaxUuids}
        \ {published[i].message.message_id : i \in DOMAIN published}

\* Mutant of send_verified_notification: with routing keys configured the
\* message also goes out on the routing key it came in with.
send_verified_notification_AlsoOriginal(exist, routing_keys, uuid) ==
    Let([Raw(exist).body EXCEPT
            !.event_type = "compute.instance.exists.verified.old",
            !.original_message_id = Raw(exist).body.message_id,
            !.message_id = uuid],
        LAMBDA body :
        <<[message |-> body, routing_key |-> Raw(exist).routing_key]>>
        \o (IF routing_keys = {} THEN <<>>
            ELSE [i \in DOMAIN The(routing_keys) |->
                     [message |-> body,
                      routing_key |-> The(routing_keys)[i]]]))

\* The messages send_verified_notification publishes, in order.
send_verified_notification(exist, routing_keys, uuid) ==
    Let([Raw(exist).body EXCEPT
            !.event_type = "compute.instance.exists.verified.old",
            !.original_message_id = Raw(exist).body.message_id,
            !.message_id = uuid],
        LAMBDA body :
        IF routing_keys = {}
        THEN <<[message |-> body, routing_key |-> Raw(exist).routing_key]>>
        ELSE [i \in DOMAIN The(routing_keys) |->
                 [message |-> body, routing_key |-> The(routing_keys)[i]]])

\* Whether the pool calls a callback that publishes, for the task of run
\* `run` that ended with res: run / run_once pass a callback only with
\* enable_notifications, apply_async calls it only when _verify returned,
\* and it publishes only if verified.
Notifies(run, res) ==
    /\ run \in DOMAIN runs
    /\ runs[run].config.enable_notifications
    /\ res.exc = <<>>
    /\ res.verified

----------------------------------------------------------------------------
(* A task of the pool: apply_async(_verify, args=(exist,)).  The worker    *)
(* runs _verify on the object it was handed, against the store as it is.   *)
(* res holds what the AsyncResult holds once the task is ready: the pair   *)
(* returned, or the exception raised (exc).  With observe, what the call   *)
(* did is appended to calls: faulted tells whether a store operation of    *)
(* the call faulted.                                                       *)

\* A task of the worker pool: the run that dispatched it, the snapshot it
\* was handed, and once it is ready its outcome; faulted tells whether the
\* store raised in it.
Task(run, exist) ==
    [run |-> run, exist |-> exist, ready |-> FALSE, res |-> <<>>,
     faulted |-> FALSE]

RunTask(k, f, observe) ==
    /\ k \in DOMAIN tasks
    /\ ~tasks[k].ready
    /\ \E v \in {_verify([exist |-> tasks[k].exist,
                          row |-> exists[tasks[k].exist.id],
                          tr |-> <<>>], f)} :
           /\ exists' = [exists EXCEPT ![tasks[k].exist.id] = v.m.row]
           /\ tasks' = [tasks EXCEPT ![k].ready = TRUE,
                                     ![k].res = <<[verified |-> v.verified,
                                                   exist |-> v.m.exist,
                                                   exc |-> v.exc]>>,
                                     ![k].faulted = f \in 1..Len(v.m.tr)]
           /\ calls' = IF observe
                       THEN Append(calls, [task |-> k,
                                           verified |-> v.verified,
                                           exist |-> v.m.exist,
                                           exc |-> v.exc,
                                           tr |-> v.m.tr,
                                           orig_e |-> v.orig_e,
                                           rec_e |-> v.rec_e,
                                           fallback |-> v.fallback,
                                           faulted |-> f \in 1..Len(v.m.tr)])
                       ELSE calls
           /\ \E uuid \in IF Notifies(tasks[k].run, v) THEN Uuids ELSE {None} :
              \E sent \in {IF uuid = None THEN <<>>
                           ELSE send_verified_notification(v.m.exist,
                                    runs[tasks[k].run].config.routing_keys,
                                    uuid)} :
                  published' = published \o
                      [i \in DOMAIN sent |->
                          [task |-> k, message |-> sent[i].message,
                           routing_key |-> sent[i].routing_key]]
    /\ UNCHANGED <<launches, deletes, reconciles, runs>>

----------------------------------------------------------------------------
(* The engine alone: one snapshot, marked VERIFYING and handed to a        *)
(* worker, over every store of at most MaxRecs records drawn from the      *)
(* candidates below.                                                       *)

T0 == TicksPerSec                 \* the snapshot's launch time: second 1
D0 == 3 * TicksPerSec             \* the snapshot's delete time: second 3
AuditEnd == D0 + 1                \* the snapshot's audit-period end

Launch(instance, launched_at, tenant) ==
    [instance |-> instance, launched_at |-> launched_at,
     instance_type_id |-> 1, tenant |-> tenant, rax_options |-> 1,
     os_architecture |-> 1, os_version |-> 1, os_distro |-> 1]

Delete(instance, launched_at, deleted_at) ==
    [instance |-> instance, launched_at |-> launched_at,
     deleted_at |-> deleted_at]

Reconcile(instance, launched_at, tenant, deleted_at) ==
    [instance |-> instance, launched_at |-> launched_at,
     deleted_at |-> deleted_at,
     instance_type_id |-> 1, tenant |-> tenant, rax_options |-> 1,
     os_architecture |-> 1, os_version |-> 1, os_distro |-> 1]

Exist(id, instance, launched_at, deleted_at, audit_period_ending, usage, delete, status) ==
    [id |-> id, instance |-> instance, launched_at |-> launched_at,
     deleted_at |-> deleted_at, audit_period_ending |-> audit_period_ending,
     instance_type_id |-> 1, tenant |-> 1, rax_options |-> 1,
     os_architecture |-> 1, os_version |-> 1, os_distro |-> 1,
     status |-> status, fail_reason |-> NoReason,
     usage |-> usage, delete |-> delete]

LaunchCands ==
    {Launch(1, T0, 1), Launch(1, T0 + 1, 1), Launch(1, T0, 2),
     Launch(1, T0 + TicksPerSec, 1), Launch(2, T0, 1)}

DeleteCands ==
    {Delete(1, T0, D0), Delete(1, T0 + 1, D0 + 1),
     Delete(1, T0, D0 + TicksPerSec), Delete(2, T0, D0)}

ReconcileCands ==
    {Reconcile(1, T0, 1, None), Reconcile(1, T0 + 1, 1, D0),
     Reconcile(1, T0, 2, D0), Reconcile(1, T0, 1, D0 + TicksPerSec),
     Reconcile(2, T0, 1, D0)}

\* A pre-attached record is a row of the store, of the snapshot's instance.
Attachable(rows, instance) ==
    {{}} \cup {{r} : r \in {x \in rows : x.instance = instance}}

Init ==
    /\ launches \in SUBSET LaunchCands
    /\ deletes \in SUBSET DeleteCands
    /\ reconciles \in SUBSET ReconcileCands
    /\ Cardinality(launches) + Cardinality(deletes) + Cardinality(reconciles)
           <= MaxRecs
    /\ \E launched_at \in {None, T0}, deleted_at \in {None, D0},
          usage \in Attachable(launches, 1), delete \in Attachable(deletes, 1) :
          LET exist == Exist(1, 1, launched_at, deleted_at, AuditEnd, usage,
                             delete, VERIFYING)
          IN  /\ exists = <<exist>>
              /\ tasks = <<Task(0, exist)>>
    /\ runs = <<>>
    /\ calls = <<>>
    /\ published = <<>>

Next == \E k \in DOMAIN tasks, f \in 0..MaxFaultAt : RunTask(k, f, TRUE)

Spec == Init /\ [][Next]_vars

----------------------------------------------------------------------------
(* The orchestrator.  A Verifier object v (one per orchestrator run):      *)
(*   pc          where the run stands: "idle", "while", "for" and "update" *)
(*               (in verify_for_range), "drain" (the loop of _run_once),   *)
(*               "done"                                                    *)
(*   once        _run_once (TRUE) or _run (FALSE)                          *)
(*   reconcile   config['reconcile']                                       *)
(*   ending_max, count, added, page   the locals of verify_for_range;      *)
(*               page is what is left of the slice the for loop iterates   *)
(*   new         the value verify_for_range returned last                  *)
(*   results     self.results: the tasks in flight, as indices of tasks    *)
(*   failed      self.failed                                               *)
(*   escalated   the snapshots passed to reconciler.failed_validation      *)

NumRuns == 2          \* orchestrator runs working on the same store
NumExists == 2        \* snapshots in the store
PageSize == 1         \* the page of verify_for_range (1000 in the source)
MaxFaults == 1        \* calls of _verify in which the store raises

EndingMax == AuditEnd \* now - settle window, the same for every run here

\* A Verifier and its position in _run / _run_once.  successful and errored
\* are the sums of the counts its calls of clean_results have returned.
Verifier(once, reconcile) ==
    [pc |-> "idle", once |-> once, reconcile |-> reconcile,
     ending_max |-> None, count |-> 0, added |-> 0, page |-> <<>>, new |-> 0,
     results |-> <<>>, failed |-> <<>>, escalated |-> <<>>,
     successful |-> 0, errored |-> 0,
     config |-> NoNotifications]

Min(a, b) == IF a <= b THEN a ELSE b

\* order_by('id') of a set of ids
RECURSIVE OrderById(_)
OrderById(ids) ==
    IF ids = {} THEN <<>>
    ELSE LET m == CHOOSE x \in ids : \A y \in ids : x <= y
         IN  <<m>> \o OrderById(ids \ {m})

\* Mutant of _list_exists: no audit_period_ending__lte filter.
_list_exists_NoEndingMax(ending_max, status) ==
    LET ids == {id \in DOMAIN exists :
                   status # "" => exists[id].status = status}
        ordered == OrderById(ids)
    IN  [i \in DOMAIN ordered |-> exists[ordered[i]]]

\* The queryset of _list_exists, evaluated now: the rows, ordered by id.
\* status "" stands for status=None.
_list_exists(ending_max, status) ==
    LET ids == {id \in DOMAIN exists :
                   /\ (ending_max # None =>
                          exists[id].audit_period_ending <= ending_max)
                   /\ (status # "" => exists[id].status = status)}
        ordered == OrderById(ids)
    IN  [i \in DOMAIN ordered |-> exists[ordered[i]]]

\* The counts of one pass of clean_results over v.results.
finished(v, ts) == Len(SelectSeq(v.results, LAMBDA k : ts[k].ready))

successful(v, ts) ==
    Len(SelectSeq(v.results, LAMBDA k : ts[k].ready /\ ts[k].res[1].exc = <<>>))

\* Mutant of clean_results: errored = finished.
clean_results_ErroredIsFinished(v, ts) ==
    Let(SelectSeq(v.results, LAMBDA k :
            /\ ts[k].ready
            /\ ts[k].res[1].exc = <<>>
            /\ v.reconcile
            /\ ~ts[k].res[1].verified),
        LAMBDA unverified :
        [v EXCEPT !.results = SelectSeq(v.results, LAMBDA k : ~ts[k].ready),
                  !.failed = @ \o [i \in DOMAIN unverified |->
                                      ts[unverified[i]].res[1].exist],
                  !.successful = @ + successful(v, ts),
                  !.errored = @ + finished(v, ts)])

\* Mutant of clean_results: no test of self.reconcile.
clean_results_NoReconcileTest(v, ts) ==
    Let(SelectSeq(v.results, LAMBDA k :
            /\ ts[k].ready
            /\ ts[k].res[1].exc = <<>>
            /\ ~ts[k].res[1].verified),
        LAMBDA unverified :
        [v EXCEPT !.results = SelectSeq(v.results, LAMBDA k : ~ts[k].ready),
                  !.failed = @ \o [i \in DOMAIN unverified |->
                                      ts[unverified[i]].res[1].exist],
                  !.successful = @ + successful(v, ts),
                  !.errored = @ + (finished(v, ts) - successful(v, ts))])

\* clean_results on Verifier v, the pool's tasks being ts.
clean_results(v, ts) ==
    Let(SelectSeq(v.results, LAMBDA k :
            /\ ts[k].ready
            /\ ts[k].res[1].exc = <<>>          \* result.successful()
            /\ v.reconcile
            /\ ~ts[k].res[1].verified),
        LAMBDA unverified :
        [v EXCEPT !.results = SelectSeq(v.results, LAMBDA k : ~ts[k].ready),
                  !.failed = @ \o [i \in DOMAIN unverified |->
                                      ts[unverified[i]].res[1].exist],
                  !.successful = @ + successful(v, ts),
                  !.errored = @ + (finished(v, ts) - successful(v, ts))])

\* reconcile_failed on Verifier v.
reconcile_failed(v) ==
    [v EXCEPT !.escalated = @ \o [i \in DOMAIN v.failed |-> v.failed[i].id],
              !.failed = <<>>]

\* _run / _run_once up to the call of verify_for_range, and its first
\* lines: the count of the PENDING snapshots that ended by ending_max.
Start(r) ==
    /\ runs[r].pc = "idle"
    /\ runs' = [runs EXCEPT ![r].pc = "while",
                            ![r].ending_max = EndingMax,
                            ![r].count = Len(_list_exists(EndingMax, PENDING)),
                            ![r].added = 0]
    /\ UNCHANGED <<exists, launches, deletes, reconciles, tasks, calls, published>>

\* while added < count: the slice exists[0:1000] is queried again.  With
\* an empty slice the for loop does nothing and the test is made again.
While(r) ==
    /\ runs[r].pc = "while"
    /\ runs[r].added < runs[r].count
    /\ \E all \in {_list_exists(runs[r].ending_max, PENDING)} :
       \E page \in {SubSeq(all, 1, Min(PageSize, Len(all)))} :
           runs' = [runs EXCEPT ![r].page = page,
                                ![r].pc = IF page = <<>> THEN "while" ELSE "for"]
    /\ UNCHANGED <<exists, launches, deletes, reconciles, tasks, calls, published>>

\* One turn of the for loop: mark VERIFYING, save, apply_async; the 30 s
\* update follows when it is due (tick).  The pool's workers run beside the
\* loop, so the task may be ready when the update looks at it.
Each(r, tick) ==
    /\ runs[r].pc = "for"
    /\ runs[r].page # <<>>
    /\ \E exist \in {[Head(runs[r].page) EXCEPT !.status = VERIFYING]} :
       \E ts \in {Append(tasks, Task(r, exist))} :
           /\ exists' = [exists EXCEPT ![exist.id] = exist]
           /\ tasks' = ts
           /\ runs' = [runs EXCEPT ![r].page = Tail(@),
                                   ![r].results = Append(@, Len(ts)),
                                   ![r].added = @ + 1,
                                   ![r].pc = IF tick THEN "update"
                                             ELSE IF Tail(runs[r].page) = <<>>
                                             THEN "while" ELSE "for"]
    /\ UNCHANGED <<launches, deletes, reconciles, calls, published>>

\* The update at the end of a turn of the for loop: clean_results.
Update(r) ==
    /\ runs[r].pc = "update"
    /\ runs' = [runs EXCEPT ![r] =
                   [clean_results(runs[r], tasks) EXCEPT
                       !.pc = IF runs[r].page = <<>> THEN "while" ELSE "for"]]
    /\ UNCHANGED <<exists, launches, deletes, reconciles, tasks, calls, published>>

\* clean_results and, with reconcile, reconcile_failed: lines 430-432 and
\* 468-470.
DrainAndEscalate(v, ts) ==
    Let(clean_results(v, ts),
        LAMBDA v2 : IF v2.reconcile THEN reconcile_failed(v2) ELSE v2)

\* verify_for_range returns count.  _run then drains once, escalates and
\* sleeps before its next iteration; _run_once enters its drain loop.
Return(r) ==
    /\ runs[r].pc = "while"
    /\ runs[r].added >= runs[r].count
    /\ \E v1 \in {[runs[r] EXCEPT !.new = runs[r].count]} :
           runs' = [runs EXCEPT ![r] =
                       IF v1.once
                       THEN [v1 EXCEPT !.pc = "drain"]
                       ELSE [DrainAndEscalate(v1, tasks) EXCEPT !.pc = "idle"]]
    /\ UNCHANGED <<exists, launches, deletes, reconciles, tasks, calls, published>>

\* One turn of the loop of _run_once, or its end.
Drain(r) ==
    /\ runs[r].pc = "drain"
    /\ runs' = [runs EXCEPT ![r] = IF Len(runs[r].results) > 0
                                   THEN DrainAndEscalate(runs[r], tasks)
                                   ELSE [runs[r] EXCEPT !.pc = "done"]]
    /\ UNCHANGED <<exists, launches, deletes, reconciles, tasks, calls, published>>

\* NumRuns orchestrator runs over NumExists PENDING snapshots, each of its
\* own instance.  The snapshots with an odd id have a matching launch
\* record, the others none; the last one may have ended after EndingMax.
\* Run 1 is a _run_once, the others are _run; config['reconcile'] is the
\* same for all of them.
InitRuns ==
    /\ \E last \in {AuditEnd, AuditEnd + 1} :
          exists = [id \in 1..NumExists |->
                       Exist(id, id, T0, None,
                             IF id = NumExists THEN last ELSE AuditEnd,
                             {}, {}, PENDING)]
    /\ launches = {Launch(id, T0, 1) : id \in {i \in 1..NumExists : i % 2 = 1}}
    /\ deletes = {}
    /\ reconciles = {}
    /\ tasks = <<>>
    /\ \E reconcile \in BOOLEAN :
          runs = [r \in 1..NumRuns |-> Verifier(r = 1, reconcile)]
    /\ calls = <<>>
    /\ published = <<>>

NextRuns ==
    \/ \E r \in DOMAIN runs : Start(r)
    \/ \E r \in DOMAIN runs : While(r)
    \/ \E r \in DOMAIN runs, tick \in BOOLEAN : Each(r, tick)
    \/ \E r \in DOMAIN runs : Update(r)
    \/ \E r \in DOMAIN runs : Return(r)
    \/ \E r \in DOMAIN runs : Drain(r)
    \/ \E k \in DOMAIN tasks, f \in 0..MaxFaultAt :
          /\ f # 0 => Cardinality({j \in DOMAIN tasks : tasks[j].faulted})
                          < MaxFaults
          /\ RunTask(k, f, FALSE)

SpecRuns == InitRuns /\ [][NextRuns]_vars

----------------------------------------------------------------------------
(* Claims about one call of _verify.                                       *)

Terminal == {VERIFIED, RECONCILED, FAILED}

Ready(k) == k \in DOMAIN calls

\* What call k did, the snapshot it was handed and the stored row.
Res(k) == calls[k]
Arg(k) == tasks[calls[k].task].exist
Row(k) == exists[Arg(k).id]

\* Call k returned (did not propagate an exception).
Returned(k) == Ready(k) /\ Res(k).exc = <<>>

IsLookup(op) == op # "InstanceExists.save"

\* C1: one call of verify returns normally and leaves the stored status in
\* VERIFIED, RECONCILED or FAILED, also when a store operation faults; the
\* fault is then recorded as FAILED with the fault's class name.
C1_VerifyEndsTerminal ==
    \A k \in DOMAIN calls : Ready(k) =>
        /\ Res(k).exc = <<>>
        /\ Row(k).status \in Terminal
        /\ (Res(k).faulted =>
               /\ Row(k).status = FAILED
               /\ Row(k).fail_reason = ClassName(DatabaseError))

\* C2: when the fast path ends in FieldMismatch and the fallback verifies
\* the snapshot against the one reconcile record of its window, the stored
\* status is RECONCILED and the stored fail reason is the text of the
\* fast-path mismatch.
C2_ReconciledKeepsReason ==
    \A k \in DOMAIN calls :
        (/\ Ready(k)
         /\ Res(k).orig_e # <<>>
         /\ Res(k).orig_e[1].cls = "FieldMismatch"
         /\ Res(k).fallback
         /\ Res(k).rec_e = <<>>
         /\ Cardinality(_find_reconcile(Arg(k).instance, Arg(k).launched_at)) = 1)
        => /\ Row(k).status = RECONCILED
           /\ Row(k).fail_reason = str(Res(k).orig_e[1])

\* C3: with orchestrator runs working on the same store at the same time,
\* no snapshot is dispatched to a worker by two of them.
C3_NoDoubleDispatch ==
    \A j, k \in DOMAIN tasks :
        tasks[j].exist.id = tasks[k].exist.id => tasks[j].run = tasks[k].run

\* C4: terminal statuses are absorbing: a snapshot whose stored status is
\* VERIFIED, RECONCILED or FAILED is not written back to VERIFYING or
\* PENDING by any step, and a step that writes VERIFYING over another
\* status writes it over PENDING.
C4_TerminalAbsorbing ==
    [][\A id \in DOMAIN exists :
          /\ exists[id].status \in Terminal
                => exists'[id].status \notin {VERIFYING, PENDING}
          /\ (exists'[id].status = VERIFYING /\ exists[id].status # VERIFYING)
                => exists[id].status = PENDING]_vars

\* The launches of the snapshot's instance in its launch window.
LaunchesInWindow(k) == _find_launch(Arg(k).instance, Arg(k).launched_at)

AmbiguousLaunch(k) ==
    AmbiguousResults("InstanceUsage", Arg(k).instance, Arg(k).launched_at)

\* C5 as stated: with two or more launches of the instance in the window,
\* the launch step ends in AmbiguousResults and the attempt goes to the
\* fallback, whether or not a launch record is pre-attached.
C5_AmbiguousLaunchAlways ==
    \A k \in DOMAIN calls :
        (/\ Ready(k)
         /\ ~Res(k).faulted
         /\ Truthy(Arg(k).launched_at)
         /\ Cardinality(LaunchesInWindow(k)) >= 2)
        => /\ Res(k).orig_e = <<AmbiguousLaunch(k)>>
           /\ Res(k).fallback

\* C5 amended: when no launch record is pre-attached and two or more
\* launches of the instance lie in the window, the fast path never
\* completes: it ends in AmbiguousResults (or in the fault of a store
\* operation) and after AmbiguousResults the attempt goes to the fallback.
C5_AmbiguousLaunchUnattached ==
    \A k \in DOMAIN calls :
        (/\ Ready(k)
         /\ Truthy(Arg(k).launched_at)
         /\ Arg(k).usage = {}
         /\ Cardinality(LaunchesInWindow(k)) >= 2)
        => /\ Res(k).orig_e # <<>>
           /\ \/ Res(k).orig_e[1] = AmbiguousLaunch(k) /\ Res(k).fallback
              \/ Res(k).orig_e[1] = DatabaseError /\ Res(k).faulted
           /\ (~Res(k).faulted => Res(k).orig_e[1] = AmbiguousLaunch(k))

C5_Witness ==
    \E k \in DOMAIN calls :
        /\ Ready(k)
        /\ Arg(k).usage = {}
        /\ Cardinality(LaunchesInWindow(k)) >= 2
        /\ Res(k).orig_e = <<AmbiguousLaunch(k)>>
        /\ Res(k).fallback
        /\ ~Res(k).faulted

\* The delete records of the snapshot's instance and launch window that
\* were deleted at or before its audit-period end.
EarlyDeletes(k) ==
    {d \in deletes :
        /\ InWindow(d, Arg(k).instance, Arg(k).launched_at)
        /\ d.deleted_at # None
        /\ d.deleted_at <= Arg(k).audit_period_ending}

FoundDeletes == VerificationException(FoundReason("InstanceDelete"))

\* The launch step of the fast path, taken alone with a working store.
LaunchStepPasses(k) ==
    _verify_for_launch(Arg(k), {}, "InstanceUsage", <<>>, 0).exc = <<>>

\* C6: a snapshot without deleted-at for which a delete record of its
\* instance and launch window was deleted at or before its audit-period
\* end fails the fast path with a verification-level condition and is not
\* marked VERIFIED by the fast path; deletes after the audit-period end do
\* not cause that failure: without a pre-attached delete the fast path
\* then passes whenever its launch step does.
C6_DeleteBeforeAuditEndFails ==
    \A k \in DOMAIN calls :
        (Ready(k) /\ Arg(k).deleted_at = None /\ Truthy(Arg(k).launched_at))
        => /\ EarlyDeletes(k) # {} =>
                /\ Res(k).orig_e # <<>>
                /\ \/ IsVerificationException(Res(k).orig_e[1])
                   \/ Res(k).orig_e[1] = DatabaseError /\ Res(k).faulted
                /\ (Res(k).verified /\ Returned(k) => Res(k).fallback)
           /\ (EarlyDeletes(k) = {} /\ Arg(k).delete = {}) =>
                /\ Res(k).orig_e # <<FoundDeletes>>
                /\ (LaunchStepPasses(k) /\ ~Res(k).faulted =>
                        /\ Res(k).orig_e = <<>>
                        /\ Res(k).verified
                        /\ Row(k).status = VERIFIED)

C6_Witness ==
    \E k \in DOMAIN calls :
        /\ Ready(k)
        /\ Arg(k).deleted_at = None
        /\ EarlyDeletes(k) # {}
        /\ LaunchStepPasses(k)
        /\ Res(k).orig_e = <<FoundDeletes>>

MissingLaunchedAt == VerificationException("Exists without a launched_at")

\* C7: for a snapshot without launched-at, verify returns verified=false
\* and stores FAILED with the 'Exists without a launched_at' reason, and no
\* launch, delete or reconcile lookup is made, on the fast path or on the
\* fallback.  (The FAILED write itself is a store operation; the stored
\* status is stated for the calls in which it does not fault.)
C7_MissingLaunchedAt ==
    \A k \in DOMAIN calls :
        (Ready(k) /\ Arg(k).launched_at = None)
        => /\ \A i \in DOMAIN Res(k).tr : ~IsLookup(Res(k).tr[i])
           /\ ~Res(k).verified
           /\ Res(k).exist.status = FAILED
           /\ Res(k).exist.fail_reason = str(MissingLaunchedAt)
           /\ (~Res(k).faulted =>
                  /\ Returned(k)
                  /\ Row(k).status = FAILED
                  /\ Row(k).fail_reason = str(MissingLaunchedAt))

C7_Witness ==
    \E k \in DOMAIN calls :
        /\ Ready(k)
        /\ Arg(k).launched_at = None
        /\ launches # {} /\ reconciles # {}
        /\ Returned(k)
        /\ Row(k).status = FAILED
        /\ Res(k).tr = <<"InstanceExists.save">>

\* C8: a snapshot without deleted-at and without delete records, whose
\* only launch record differs in tenant, and for which exactly one
\* reconcile record lies in the launch window, with launch fields equal to
\* the snapshot's and no deleted-at either, is verified by the fallback.
C8_ReconcileWithoutDelete ==
    \A k \in DOMAIN calls :
        (/\ Ready(k)
         /\ ~Res(k).faulted
         /\ Arg(k).deleted_at = None
         /\ Truthy(Arg(k).launched_at)
         /\ Arg(k).delete = {}
         /\ {d \in deletes : d.instance = Arg(k).instance} = {}
         /\ Cardinality({l \in launches : l.instance = Arg(k).instance}) = 1
         /\ \A l \in launches : l.instance = Arg(k).instance =>
                /\ _verify_field_mismatch(Arg(k), l) # <<>>
                /\ _verify_field_mismatch(Arg(k), l)[1].a = "tenant"
         /\ Cardinality(_find_reconcile(Arg(k).instance, Arg(k).launched_at)) = 1
         /\ \A r \in _find_reconcile(Arg(k).instance, Arg(k).launched_at) :
                /\ _verify_field_mismatch(Arg(k), r) = <<>>
                /\ r.deleted_at = None)
        => /\ Res(k).verified
           /\ Row(k).status \in {VERIFIED, RECONCILED}

\* C9: when the fast path and the fallback both end in a verification-level
\* condition, the snapshot is FAILED; the stored reason is the fast-path
\* condition's message if the fallback ended in NotFound, and the fallback
\* condition's message otherwise.  (Stated for the calls in which the
\* FAILED write does not fault.)
C9_FallbackFailReason ==
    \A k \in DOMAIN calls :
        (/\ Ready(k)
         /\ Res(k).fallback
         /\ Res(k).rec_e # <<>>
         /\ IsVerificationException(Res(k).rec_e[1])
         /\ ~Res(k).faulted)
        => /\ Returned(k)
           /\ ~Res(k).verified
           /\ Row(k).status = FAILED
           /\ Row(k).fail_reason = IF IsNotFound(Res(k).rec_e[1])
                                   THEN str(Res(k).orig_e[1])
                                   ELSE str(Res(k).rec_e[1])

C9_Witness ==
    \E k \in DOMAIN calls :
        /\ Ready(k)
        /\ Res(k).fallback
        /\ Res(k).rec_e # <<>>
        /\ Res(k).rec_e[1].cls \in {"FieldMismatch", "AmbiguousResults"}
        /\ Res(k).rec_e # Res(k).orig_e
        /\ Row(k).status = FAILED
        /\ Row(k).fail_reason = str(Res(k).rec_e[1])

\* C10: the flag a call returns agrees with the status it stored: true
\* exactly with VERIFIED or RECONCILED, false exactly with FAILED.
C10_FlagAgreesWithStatus ==
    \A k \in DOMAIN calls : Returned(k) =>
        /\ Res(k).verified <=> Row(k).status \in {VERIFIED, RECONCILED}
        /\ ~Res(k).verified <=> Row(k).status = FAILED

----------------------------------------------------------------------------
(* _mark_exist_verified alone: a snapshot in any status, with or without   *)
(* a fail reason, is marked at most MaxMarks times in a row, with any      *)
(* arguments.  tasks[1].exist is the object in memory, exists[1] its row;  *)
(* calls logs each application: the object and the row before and after.   *)

MaxMarks == 2

Reasons ==
    {NoReason, str(FieldMismatch("tenant", 1, 2)),
     str(NotFound("InstanceUsage", 1, T0))}

InitMark ==
    /\ \E status \in {PENDING, VERIFYING, VERIFIED, RECONCILED, FAILED},
          fail_reason \in Reasons :
          \E exist \in {[Exist(1, 1, T0, None, AuditEnd, {}, {}, status)
                            EXCEPT !.fail_reason = fail_reason]} :
              /\ exists = <<exist>>
              /\ tasks = <<Task(0, exist)>>
    /\ launches = {}
    /\ deletes = {}
    /\ reconciles = {}
    /\ runs = <<>>
    /\ calls = <<>>
    /\ published = <<>>

MarkVerified(reconciled, reason, f) ==
    /\ Len(calls) < MaxMarks
    /\ \E mk \in {_mark_exist_verified([exist |-> tasks[1].exist,
                                        row |-> exists[1], tr |-> <<>>],
                                       reconciled, reason, f)} :
           /\ exists' = <<mk.m.row>>
           /\ tasks' = [tasks EXCEPT ![1].exist = mk.m.exist]
           /\ calls' = Append(calls, [before |-> tasks[1].exist,
                                      row0 |-> exists[1],
                                      reconciled |-> reconciled,
                                      reason |-> reason,
                                      after |-> mk.m.exist,
                                      row |-> mk.m.row,
                                      exc |-> mk.exc])
    /\ UNCHANGED <<launches, deletes, reconciles, runs, published>>

NextMark ==
    \E reconciled \in BOOLEAN, reason \in Reasons, f \in 0..1 :
        MarkVerified(reconciled, reason, f)

SpecMark == InitMark /\ [][NextMark]_vars

\* C11: marking an already VERIFIED snapshot verified changes neither the
\* snapshot (status, fail reason) nor, when its row agreed with it, the
\* row; and marking a snapshot twice with the same arguments leaves the
\* snapshot as marking it once did (the row too, when neither save
\* faults).
C11_MarkVerifiedIdempotent ==
    \A k \in DOMAIN calls :
        /\ (calls[k].before.status = VERIFIED /\ ~calls[k].reconciled)
              => /\ calls[k].after = calls[k].before
                 /\ calls[k].after.status = VERIFIED
                 /\ calls[k].after.fail_reason = calls[k].before.fail_reason
                 /\ (calls[k].row0 = calls[k].before
                        => calls[k].row = calls[k].row0)
        /\ (/\ k > 1
            /\ calls[k].reconciled = calls[k - 1].reconciled
            /\ calls[k].reason = calls[k - 1].reason)
              => /\ calls[k].after = calls[k - 1].after
                 /\ (calls[k].exc = <<>> /\ calls[k - 1].exc = <<>>
                        => calls[k].row = calls[k - 1].row)

C11_Witness ==
    /\ Len(calls) = 2
    /\ calls[1].before.status = VERIFIED
    /\ calls[1].before.fail_reason # NoReason
    /\ ~calls[1].reconciled /\ ~calls[2].reconciled
    /\ calls[1].reason # NoReason
    /\ calls[1].reason # calls[1].before.fail_reason
    /\ calls[2].reason = calls[1].reason
    /\ calls[1].exc = <<>> /\ calls[2].exc = <<>>
    /\ exists[1] = calls[1].before

----------------------------------------------------------------------------
(* The orchestrator runs, scheduled fairly: a run that can take its next   *)
(* step takes it (each run is a process of its own), and a task handed to  *)
(* the pool is run by a worker.                                            *)

\* The next step of run r.
Step(r) ==
    \/ Start(r)
    \/ While(r)
    \/ \E tick \in BOOLEAN : Each(r, tick)
    \/ Update(r)
    \/ Return(r)
    \/ Drain(r)

\* A worker runs task k.
Work(k) ==
    \E f \in 0..MaxFaultAt :
        /\ f # 0 => Cardinality({j \in DOMAIN tasks : tasks[j].faulted})
                        < MaxFaults
        /\ RunTask(k, f, FALSE)

FairRuns ==
    /\ SpecRuns
    /\ \A r \in 1..NumRuns : WF_vars(Step(r))
    /\ \A k \in 1..(NumRuns * NumExists) : WF_vars(Work(k))

\* C12: a _run_once (run 1) submits one batch and, its tasks being run,
\* returns; when it has returned no task of it is in flight.
C12_RunOnceReturns ==
    /\ <>(runs[1].pc = "done")
    /\ [](runs[1].pc = "done" => runs[1].results = <<>>)

----------------------------------------------------------------------------
(* Claims about the orchestrator.                                          *)

Range(seq) == {seq[i] : i \in DOMAIN seq}

\* The tasks run r dispatched and has drained from self.results.
Drained(r) ==
    {k \in DOMAIN tasks : tasks[k].run = r /\ k \notin Range(runs[r].results)}

\* Those of them that ran to completion and returned verified = False.
Unverified(r) ==
    {k \in Drained(r) : tasks[k].res[1].exc = <<>> /\ ~tasks[k].res[1].verified}

\* The snapshots run r has queued so far: escalated, or still in failed.
Queued(r) ==
    runs[r].escalated \o [i \in DOMAIN runs[r].failed |-> runs[r].failed[i].id]

\* C13: with reconcile set, the snapshots a run has put in its failed set
\* are those of its drained tasks that completed normally with
\* verified = False, each once, so that failed_validation is called at most
\* once for each; a step that escalates leaves the failed set empty; and
\* without reconcile nothing is queued or escalated.
C13_FailedSetAndEscalation ==
    /\ [](\A r \in DOMAIN runs :
            /\ \A k \in Drained(r) : tasks[k].ready
            /\ IF runs[r].reconcile
               THEN /\ Range(Queued(r)) = {tasks[k].exist.id : k \in Unverified(r)}
                    /\ Len(Queued(r)) = Cardinality(Unverified(r))
               ELSE runs[r].failed = <<>> /\ runs[r].escalated = <<>>)
    /\ [][\A r \in DOMAIN runs :
            runs'[r].escalated # runs[r].escalated
                => /\ runs'[r].failed = <<>>
                   /\ runs[r].reconcile]_vars

C13_Witness ==
    \E r \in DOMAIN runs :
        /\ runs[r].reconcile
        /\ runs[r].escalated # <<>>
        /\ runs[r].failed = <<>>
        /\ \E k \in Drained(r) : tasks[k].res[1].verified

----------------------------------------------------------------------------
(* run_once with notifications: one run over the snapshots of InitRuns,   *)
(* for every config: notifications off, or on with no routing keys         *)
(* configured (None) or with a list of them.                               *)

RoutingKeys == {{}, {<<>>}, {<<"k1">>}, {<<"k1", "k2">>}}

Configs ==
    {NoNotifications}
    \cup {[enable_notifications |-> TRUE, routing_keys |-> keys] :
             keys \in RoutingKeys}

InitNotify ==
    /\ exists = [id \in 1..NumExists |->
                    Exist(id, id, T0, None, AuditEnd, {}, {}, PENDING)]
    /\ launches = {Launch(id, T0, 1) : id \in {i \in 1..NumExists : i % 2 = 1}}
    /\ deletes = {}
    /\ reconciles = {}
    /\ tasks = <<>>
    /\ \E config \in Configs, reconcile \in BOOLEAN :
          runs = <<[Verifier(TRUE, reconcile) EXCEPT !.config = config]>>
    /\ calls = <<>>
    /\ published = <<>>

NextNotify ==
    \/ \E r \in DOMAIN runs : Step(r)
    \/ \E k \in DOMAIN tasks : Work(k)

SpecNotify == InitNotify /\ [][NextNotify]_vars

\* The messages published for task k, in order.
PublishedFor(k) == SelectSeq(published, LAMBDA p : p.task = k)

\* C14: with notifications enabled, for a task that completed with
\* verified = True one message is published for each configured routing
\* key, in their order (one on the routing key of the raw message when
\* none is configured), with the verified event type,
\* original_message_id the raw message's message_id, a message_id that is
\* new, and the rest of the body as it was; for any other task, and
\* without notifications, nothing is published.
C14_OneMessagePerRoutingKey ==
    \A k \in DOMAIN tasks :
        LET config == runs[tasks[k].run].config
            raw == Raw(tasks[k].exist)
            keys == IF config.routing_keys = {} THEN <<raw.routing_key>>
                    ELSE The(config.routing_keys)
            msgs == PublishedFor(k)
        IN  IF /\ config.enable_notifications
               /\ tasks[k].ready
               /\ tasks[k].res[1].exc = <<>>
               /\ tasks[k].res[1].verified
            THEN /\ [i \in DOMAIN msgs |-> msgs[i].routing_key] = keys
                 /\ \A i \in DOMAIN msgs :
                       /\ msgs[i].message.event_type
                              = "compute.instance.exists.verified.old"
                       /\ msgs[i].message.original_message_id
                              = raw.body.message_id
                       /\ msgs[i].message.message_id
                              \notin {Raw(exists[id]).body.message_id :
                                         id \in DOMAIN exists}
                       /\ msgs[i].message.payload = raw.body.payload
            ELSE msgs = <<>>

C14_Witness ==
    /\ Len(published) = 2
    /\ published[1].routing_key # published[2].routing_key
    /\ \E k \in DOMAIN tasks :
          /\ tasks[k].ready
          /\ tasks[k].res[1].exc = <<>>
          /\ ~tasks[k].res[1].verified

----------------------------------------------------------------------------
(* The engine under a Verifier: one snapshot, marked VERIFYING and         *)
(* dispatched by a run whose config['reconcile'] is set or not, over       *)
(* stores with a launch that agrees or differs in tenant and with          *)
(* reconcile records.                                                      *)

InitFlag ==
    /\ launches \in SUBSET {Launch(1, T0, 1), Launch(1, T0, 2)}
    /\ deletes \in SUBSET {Delete(1, T0, D0)}
    /\ reconciles \in SUBSET {Reconcile(1, T0, 1, D0), Reconcile(1, T0, 1, None),
                              Reconcile(1, T0, 2, D0)}
    /\ \E deleted_at \in {None, D0}, reconcile \in BOOLEAN :
          \E exist \in {Exist(1, 1, T0, deleted_at, AuditEnd, {}, {}, VERIFYING)} :
              /\ exists = <<exist>>
              /\ tasks = <<Task(1, exist)>>
              /\ runs = <<[Verifier(TRUE, reconcile) EXCEPT
                              !.pc = "drain", !.results = <<1>>]>>
    /\ calls = <<>>
    /\ published = <<>>

NextFlag == \E k \in DOMAIN tasks, f \in 0..MaxFaultAt : RunTask(k, f, TRUE)

SpecFlag == InitFlag /\ [][NextFlag]_vars

\* C15: for a snapshot dispatched by a run whose reconcile flag is off and
\* whose fast path ends in FieldMismatch, no reconcile record is looked up,
\* the snapshot is FAILED with the reason of that mismatch and the call
\* returns verified = False.
C15_NoFallbackWhenDisabled ==
    \A k \in DOMAIN calls :
        (/\ Ready(k)
         /\ ~runs[tasks[Res(k).task].run].reconcile
         /\ ~Res(k).faulted
         /\ Res(k).orig_e # <<>>
         /\ Res(k).orig_e[1].cls = "FieldMismatch")
        => /\ \A i \in DOMAIN Res(k).tr :
                  Res(k).tr[i] \notin {"InstanceReconcile.count",
                                       "InstanceReconcile.get"}
           /\ ~Res(k).verified
           /\ Row(k).status = FAILED
           /\ Row(k).fail_reason = str(Res(k).orig_e[1])

----------------------------------------------------------------------------
(* The date comparison on its own: one call of _verify_date_field on each
   pair of timestamps of seconds 0..MaxSeconds, or None.                   *)

MaxSeconds == 3

MaxCompares == 1

Timestamps == 0..(MaxSeconds * TicksPerSec + TicksPerSec - 1)

InitDates ==
    /\ exists = <<>>
    /\ launches = {}
    /\ deletes = {}
    /\ reconciles = {}
    /\ tasks = <<>>
    /\ runs = <<>>
    /\ calls = <<>>
    /\ published = <<>>

CompareDates(d1, d2, same_second) ==
    /\ Len(calls) < MaxCompares
    /\ calls' = Append(calls, [d1 |-> d1, d2 |-> d2, same_second |-> same_second,
                               res |-> _verify_date_field(d1, d2, same_second)])
    /\ UNCHANGED <<exists, launches, deletes, reconciles, tasks, runs, published>>

NextDates ==
    \E d1 \in Timestamps \cup {None}, d2 \in Timestamps \cup {None},
       same_second \in BOOLEAN : CompareDates(d1, d2, same_second)

SpecDates == InitDates /\ [][NextDates]_vars

Seconds(d) == CHOOSE s \in 0..MaxSeconds + 1 :
                  s * TicksPerSec <= d /\ d < (s + 1) * TicksPerSec

\* C16: the same-second comparison of two present timestamps returns match
\* when they are equal or have the same whole-second part and mismatch when
\* they are a second or more apart; with an absent timestamp it returns
\* mismatch.
C16_SameSecondComparison ==
    \A i \in DOMAIN calls :
        calls[i].same_second =>
            IF calls[i].d1 = None \/ calls[i].d2 = None
            THEN ~calls[i].res
            ELSE /\ (calls[i].d1 = calls[i].d2
                        \/ Seconds(calls[i].d1) = Seconds(calls[i].d2))
                    => calls[i].res
                 /\ (calls[i].d1 - calls[i].d2 >= TicksPerSec
                        \/ calls[i].d2 - calls[i].d1 >= TicksPerSec)
                    => ~calls[i].res

----------------------------------------------------------------------------
(* The Matcher on its own: one call of _verify_field_mismatch on a snapshot
   and a candidate launch record.                                          *)

MaxFieldValue == 2

FieldValues == 1..MaxFieldValue

InitMatch ==
    /\ \E launched_at \in Timestamps \cup {None} :
          exists = <<Exist(1, 1, launched_at, None, AuditEnd, {}, {}, VERIFYING)>>
    /\ \E launched_at \in Timestamps \cup {None},
          instance_type_id \in FieldValues, tenant \in FieldValues,
          rax_options \in FieldValues, os_architecture \in FieldValues,
          os_version \in FieldValues, os_distro \in FieldValues :
          launches = {[instance |-> 1, launched_at |-> launched_at,
                       instance_type_id |-> instance_type_id, tenant |-> tenant,
                       rax_options |-> rax_options,
                       os_architecture |-> os_architecture,
                       os_version |-> os_version, os_distro |-> os_distro]}
    /\ deletes = {}
    /\ reconciles = {}
    /\ tasks = <<>>
    /\ runs = <<>>
    /\ calls = <<>>
    /\ published = <<>>

Match(exist, launch) ==
    /\ Len(calls) < MaxCompares
    /\ calls' = Append(calls, [exist |-> exist, launch |-> launch,
                               res |-> _verify_field_mismatch(exist, launch)])
    /\ UNCHANGED <<exists, launches, deletes, reconciles, tasks, runs, published>>

NextMatch == \E launch \in launches : Match(exists[1], launch)

SpecMatch == InitMatch /\ [][NextMatch]_vars

MatchFields ==
    <<"launched_at", "instance_type_id", "tenant", "rax_options",
      "os_architecture", "os_version", "os_distro">>

SameSecond(a, b) == a # None /\ b # None /\ Seconds(a) = Seconds(b)

Differs(exist, launch, field) ==
    IF field = "launched_at"
    THEN ~SameSecond(exist.launched_at, launch.launched_at)
    ELSE exist[field] # launch[field]

Differing(exist, launch) ==
    {j \in DOMAIN MatchFields : Differs(exist, launch, MatchFields[j])}

Earliest(S) == CHOOSE j \in S : \A i \in S : j <= i

\* C17: the Matcher returns ok iff no field of launched-at (same second),
\* instance type, tenant, provider options, OS architecture, OS version, OS
\* distro differs between snapshot and candidate; otherwise it reports the
\* earliest differing field of that order, with the snapshot's value as
\* expected and the candidate's as actual; it changes neither record.
C17_FirstDifferingField ==
    \A i \in DOMAIN calls :
        /\ IF Differing(calls[i].exist, calls[i].launch) = {}
           THEN calls[i].res = <<>>
           ELSE calls[i].res =
                  <<FieldMismatch(
                      MatchFields[Earliest(Differing(calls[i].exist, calls[i].launch))],
                      calls[i].exist[MatchFields[Earliest(Differing(calls[i].exist, calls[i].launch))]],
                      calls[i].launch[MatchFields[Earliest(Differing(calls[i].exist, calls[i].launch))]])>>
        /\ exists = <<calls[i].exist>>
        /\ launches = {calls[i].launch}

----------------------------------------------------------------------------
(* Dispatch by verify_for_range                                            *)

\* The tasks of run r, in the order of their dispatch.
Dispatched(r) ==
    SelectSeq([k \in DOMAIN tasks |-> k], LAMBDA k : tasks[k].run = r)

\* The tasks run r dispatched in its current call of verify_for_range.
ThisCall(r) ==
    SubSeq(Dispatched(r), Len(Dispatched(r)) - runs[r].added + 1,
           Len(Dispatched(r)))

\* C18: a snapshot that verify_for_range dispatches was, when the page was
\* read, a row of the store with status PENDING and audit-period end <=
\* ending_max; the store holds it with status VERIFYING in the state in
\* which its task enters the pool, not yet run; one call dispatches in
\* increasing order of id.
C18_DispatchedWerePending ==
    /\ [][\A r \in DOMAIN runs :
            (runs[r].pc = "while" /\ runs'[r].pc = "for")
            => \A i \in DOMAIN runs'[r].page :
                  /\ runs'[r].page[i] = exists[runs'[r].page[i].id]
                  /\ runs'[r].page[i].status = PENDING
                  /\ runs'[r].page[i].audit_period_ending <= runs'[r].ending_max]_vars
    /\ [][\A k \in DOMAIN tasks' :
            k \notin DOMAIN tasks
            => /\ runs[tasks'[k].run].page # <<>>
               /\ tasks'[k].exist =
                     [Head(runs[tasks'[k].run].page) EXCEPT !.status = VERIFYING]
               /\ exists'[tasks'[k].exist.id] = tasks'[k].exist
               /\ ~tasks'[k].ready]_vars
    /\ [](\A r \in DOMAIN runs :
            runs[r].pc \in {"while", "for", "update"}
            => \A i \in DOMAIN ThisCall(r), j \in DOMAIN ThisCall(r) :
                  i < j => tasks[ThisCall(r)[i]].exist.id
                              < tasks[ThisCall(r)[j]].exist.id)

\* One call has dispatched two snapshots, and another run one of them too.
C18_Witness ==
    \E r \in DOMAIN runs :
        /\ runs[r].pc = "while"
        /\ runs[r].added = 2
        /\ Len(ThisCall(r)) = 2
        /\ \E k \in DOMAIN tasks : tasks[k].run # r

----------------------------------------------------------------------------
(* Task accounting                                                         *)

Submitted(r) == {k \in DOMAIN tasks : tasks[k].run = r}

InFlight(r) == Range(runs[r].results)

\* C19: every task a run submitted is in its in-flight list, once, or was
\* complete when a clean_results removed it and was then counted once, as
\* successful when _verify returned and as errored when it raised: in-flight
\* + successful + errored = submitted; a drained task never is in flight
\* again.
C19_TaskAccounting ==
    /\ [](\A r \in DOMAIN runs :
            /\ InFlight(r) \subseteq Submitted(r)
            /\ Cardinality(InFlight(r)) = Len(runs[r].results)
            /\ \A k \in Drained(r) : tasks[k].ready
            /\ runs[r].successful =
                  Cardinality({k \in Drained(r) : tasks[k].res[1].exc = <<>>})
            /\ runs[r].errored =
                  Cardinality({k \in Drained(r) : tasks[k].res[1].exc # <<>>})
            /\ Len(runs[r].results) + runs[r].successful + runs[r].errored
                  = Cardinality(Submitted(r)))
    /\ [][\A r \in DOMAIN runs :
            /\ Drained(r) \subseteq Drained(r)'
            /\ \A k \in Drained(r)' \ Drained(r) : tasks[k].ready]_vars

\* A run has counted a task as successful and another as errored.
C19_Witness ==
    \E r \in DOMAIN runs : runs[r].successful >= 1 /\ runs[r].errored >= 1

----------------------------------------------------------------------------
(* Termination of verify_for_range                                         *)

InCall(r) == runs[r].pc \in {"while", "for", "update"}

\* C20: every call of verify_for_range returns, also when another run
\* claims eligible snapshots meanwhile, and the count it returns is the
\* number of snapshots it marked VERIFYING and dispatched.
C20_VerifyForRangeReturns ==
    /\ \A r \in 1..NumRuns : InCall(r) ~> ~InCall(r)
    /\ [][\A r \in DOMAIN runs :
            (InCall(r) /\ ~InCall(r)')
            => runs'[r].new = runs[r].added]_vars

----------------------------------------------------------------------------
(* Escalation by _run_once                                                 *)

\* C21: when a _run_once with reconcile has returned, its failed list is
\* empty and every snapshot of a task of it that returned verified = False
\* has been passed to the reconciler, also when the update inside
\* verify_for_range drained the task's result.
C21_RunOnceEscalatesAll ==
    \A r \in DOMAIN runs :
        (runs[r].once /\ runs[r].reconcile /\ runs[r].pc = "done")
        => /\ runs[r].failed = <<>>
           /\ \A k \in Submitted(r) :
                 (tasks[k].ready /\ tasks[k].res[1].exc = <<>>
                     /\ ~tasks[k].res[1].verified)
                 => tasks[k].exist.id \in Range(runs[r].escalated)

====
